---- MODULE Spec2Model ----
(***************************************************************************)
(* The Harp lexer (package parse): a cursor over an immutable input string *)
(* that produces one token per NextToken call.  Strings are sequences of   *)
(* bytes (0..255); runes are code points.  Positions are 0-based byte      *)
(* offsets as in the Go source, so the byte at position p of s is s[p+1].  *)
(***************************************************************************)
EXTENDS Integers, Sequences, FiniteSets, TLC

\* Longest enumerated input, in bytes.
MaxLen == 4
\* Number of NextToken calls made once the cursor is parked at the end of input.
ExtraCalls == 2

----------------------------------------------------------------------------
(* Characters the lexer names in its source, by byte value. *)
ch ==
    [nul |-> 0, tab |-> 9, lf |-> 10, cr |-> 13, sp |-> 32, bang |-> 33,
     dquote |-> 34, squote |-> 39, lparen |-> 40, rparen |-> 41, star |-> 42,
     plus |-> 43, minus |-> 45, dot |-> 46, slash |-> 47, zero |-> 48,
     one |-> 49, nine |-> 57, colon |-> 58, semi |-> 59, lbracket |-> 91,
     backslash |-> 92, rbracket |-> 93, under |-> 95, a |-> 97,
     lbrace |-> 123, pipe |-> 124, rbrace |-> 125]

\* utf8.RuneError, the rune DecodeRuneInString yields for an invalid encoding.
RuneError == 65533

byteAt(s, p) == s[p + 1]

\* s[from:to] of Go: the bytes at positions from .. to-1.
slice(s, from, to) == SubSeq(s, from + 1, to)

\* True when position p of s holds a byte in lo..hi.
inRange(s, p, lo, hi) == p < Len(s) /\ byteAt(s, p) >= lo /\ byteAt(s, p) <= hi

\* utf8.DecodeRuneInString(s[p:]) for p < len(s): the rune and its width.
DecodeRuneInString(s, p) ==
    LET b0 == byteAt(s, p)
        bad == [r |-> RuneError, w |-> 1]
    IN  IF b0 < 128 THEN [r |-> b0, w |-> 1]
        ELSE IF b0 >= 194 /\ b0 <= 223 THEN
            IF inRange(s, p + 1, 128, 191)
            THEN [r |-> (b0 % 32) * 64 + (byteAt(s, p + 1) % 64), w |-> 2]
            ELSE bad
        ELSE IF b0 >= 224 /\ b0 <= 239 THEN
            LET lo == IF b0 = 224 THEN 160 ELSE 128
                hi == IF b0 = 237 THEN 159 ELSE 191
            IN  IF inRange(s, p + 1, lo, hi) /\ inRange(s, p + 2, 128, 191)
                THEN [r |-> (b0 % 16) * 4096 + (byteAt(s, p + 1) % 64) * 64
                              + (byteAt(s, p + 2) % 64),
                      w |-> 3]
                ELSE bad
        ELSE IF b0 >= 240 /\ b0 <= 244 THEN
            LET lo == IF b0 = 240 THEN 144 ELSE 128
                hi == IF b0 = 244 THEN 143 ELSE 191
            IN  IF /\ inRange(s, p + 1, lo, hi)
                   /\ inRange(s, p + 2, 128, 191)
                   /\ inRange(s, p + 3, 128, 191)
                THEN [r |-> (b0 % 8) * 262144 + (byteAt(s, p + 1) % 64) * 4096
                              + (byteAt(s, p + 2) % 64) * 64
                              + (byteAt(s, p + 3) % 64),
                      w |-> 4]
                ELSE bad
        ELSE bad

\* string(r) of Go for a rune r: its UTF-8 encoding (U+FFFD when r is no
\* valid code point).
runeString(r) ==
    IF r >= 0 /\ r < 128 THEN <<r>>
    ELSE IF r >= 128 /\ r < 2048 THEN <<192 + (r \div 64), 128 + (r % 64)>>
    ELSE IF r < 0 \/ r > 1114111 \/ (r >= 55296 /\ r <= 57343)
        THEN <<239, 191, 189>>
    ELSE IF r < 65536
        THEN <<224 + (r \div 4096), 128 + ((r \div 64) % 64), 128 + (r % 64)>>
    ELSE <<240 + (r \div 262144), 128 + ((r \div 4096) % 64),
           128 + ((r \div 64) % 64), 128 + (r % 64)>>

\* unicode.IsLetter on the code points the inputs below can produce: ASCII,
\* Latin-1, Latin Extended, Hebrew, Hiragana and the CJK unified ideographs.
IsLetter(r) ==
    \/ r >= 65 /\ r <= 90
    \/ r >= 97 /\ r <= 122
    \/ r \in {170, 181, 186}
    \/ r >= 192 /\ r <= 214
    \/ r >= 216 /\ r <= 246
    \/ r >= 248 /\ r <= 705
    \/ r >= 1488 /\ r <= 1514
    \/ r >= 12353 /\ r <= 12438
    \/ r >= 19968 /\ r <= 40959

----------------------------------------------------------------------------
(* Rune predicates *)

\* Faulty variant of canStartSymbol: letters only.
canStartSymbolLettersOnly(run) == IsLetter(run)

canStartSymbol(run) ==
    IsLetter(run) \/ run \in {ch.under, ch.minus, ch.plus, ch.slash, ch.star}

isDigit(run) == ch.zero <= run /\ run <= ch.nine

isStoprune(run) ==
    run \in {ch.lparen, ch.rparen, ch.lbracket, ch.rbracket, ch.lbrace,
             ch.rbrace, ch.sp, ch.tab, ch.cr, ch.lf, ch.nul}

----------------------------------------------------------------------------
(* Tokens and failures *)

TokenTypes ==
    {"EOF", "ILLEGAL", "COMMENT", "SYMBOL", "INT", "FLOAT", "STRING",
     "LPAREN", "RPAREN", "LBRACE", "RBRACE", "LBRACKET", "RBRACKET",
     "DOT", "COLON", "QUOTE", "UNDER", "PIPE"}

Token(typ, literal, line, column) ==
    [Type |-> typ, Literal |-> literal, Line |-> line, Column |-> column]

\* Token{}: the zero value.
ZeroToken == Token("", <<>>, 0, 0)

\* A LexicalFailure is a Go string: the sequence of its bytes.
\* The empty LexicalFailure "" a reader returns on success.
NoFailure == <<>>

\* "met a second dot while reading float"
TwoDotsInFloat ==
    <<109, 101, 116, 32, 97, 32, 115, 101, 99, 111, 110, 100, 32, 100,
      111, 116, 32, 119, 104, 105, 108, 101, 32, 114, 101, 97, 100, 105,
      110, 103, 32, 102, 108, 111, 97, 116>>

\* "met non-digit while reading number"
NonDigitInNumber ==
    <<109, 101, 116, 32, 110, 111, 110, 45, 100, 105, 103, 105, 116,
      32, 119, 104, 105, 108, 101, 32, 114, 101, 97, 100, 105, 110, 103,
      32, 110, 117, 109, 98, 101, 114>>

\* "met EOF while reading string"
EofInString ==
    <<109, 101, 116, 32, 69, 79, 70, 32, 119, 104, 105, 108, 101, 32,
      114, 101, 97, 100, 105, 110, 103, 32, 115, 116, 114, 105, 110,
      103>>

\* "met unescaped newline while reading string"
NewlineInString ==
    <<109, 101, 116, 32, 117, 110, 101, 115, 99, 97, 112, 101, 100, 32,
      110, 101, 119, 108, 105, 110, 101, 32, 119, 104, 105, 108, 101,
      32, 114, 101, 97, 100, 105, 110, 103, 32, 115, 116, 114, 105, 110,
      103>>

\* "met invalid character after reading a symbol"
InvalidAfterSymbol ==
    <<109, 101, 116, 32, 105, 110, 118, 97, 108, 105, 100, 32, 99, 104,
      97, 114, 97, 99, 116, 101, 114, 32, 97, 102, 116, 101, 114, 32,
      114, 101, 97, 100, 105, 110, 103, 32, 97, 32, 115, 121, 109, 98,
      111, 108>>

BaseFailures ==
    {TwoDotsInFloat, NonDigitInNumber, EofInString, NewlineInString,
     InvalidAfterSymbol}

\* The offsets at which sub occurs in s.
occurrences(s, sub) ==
    {p \in 0..(Len(s) - Len(sub)) :
        \A i \in 1..Len(sub) : s[p + i] = sub[i]}

\* The least and the greatest of a set of offsets, -1 when it is empty.
least(offsets) ==
    IF offsets = {} THEN -1
    ELSE CHOOSE p \in offsets : \A q \in offsets : p <= q

greatest(offsets) ==
    IF offsets = {} THEN -1
    ELSE CHOOSE p \in offsets : \A q \in offsets : p >= q

\* strings.Index(s, sub): the offset of the first occurrence of sub in s,
\* -1 when there is none.
Index(s, sub) == least(occurrences(s, sub))

\* strings.LastIndex in place of strings.Index.
LastIndex(s, sub) == greatest(occurrences(s, sub))

\* lf[:colon], all of lf when colon < 0.
upTo(lf, colon) == IF colon < 0 THEN lf ELSE slice(lf, 0, colon)

CauseUpToLastColon(lf) == upTo(lf, LastIndex(lf, <<ch.colon, ch.sp>>))

\* Cause: the part of the failure before the first ": ", all of it when
\* there is none.
Cause(lf) == upTo(lf, Index(lf, <<ch.colon, ch.sp>>))

Same(lf, other) == Cause(lf) = Cause(other)

\* The two lowercase hexadecimal digits %x prints for one byte.
hexDigit(d) == IF d < 10 THEN ch.zero + d ELSE ch.a + (d - 10)

RECURSIVE hex(_)
hex(value) ==
    IF value = <<>> THEN <<>>
    ELSE <<hexDigit(Head(value) \div 16), hexDigit(Head(value) % 16)>>
           \o hex(Tail(value))

\* fmt.Sprintf("%s: string(%s) hex(%x)", lf, value, value)
WithStrhex(lf, value) ==
    lf \o <<ch.colon, ch.sp>>
       \o <<115, 116, 114, 105, 110, 103, ch.lparen>> \o value
       \o <<ch.rparen, ch.sp, 104, 101, 120, ch.lparen>> \o hex(value)
       \o <<ch.rparen>>

\* A nil *LexicalError.
NoError == [Token |-> ZeroToken, Reason |-> NoFailure, nil |-> TRUE]

LexicalError(tok, reason) == [Token |-> tok, Reason |-> reason, nil |-> FALSE]

----------------------------------------------------------------------------
(* The cursor *)

Lexer(input, pos, cur, width, line, column) ==
    [input |-> input, currentPosition |-> pos, current |-> cur,
     currentWidth |-> width, line |-> line, column |-> column]

\* forward once the new position is known: the end of input, or a decode.
advance(lex, npos) ==
    IF npos >= Len(lex.input)
    THEN [lex EXCEPT !.currentPosition = npos, !.column = lex.column + 1,
                     !.current = 0]
    ELSE [lex EXCEPT !.currentPosition = npos, !.column = lex.column + 1,
                     !.current = DecodeRuneInString(lex.input, npos).r,
                     !.currentWidth = DecodeRuneInString(lex.input, npos).w]

\* Faulty variant of forward: the column is counted even when the cursor is
\* already at the end of the input.
forwardCountsAtEnd(lex) ==
    IF lex.currentPosition >= Len(lex.input)
    THEN [lex EXCEPT !.column = lex.column + 1]
    ELSE advance(lex, lex.currentPosition + lex.currentWidth)

\* Faulty variant of forward: the cursor steps by one byte, whatever the
\* width of the character it leaves.
forwardOneByte(lex) ==
    IF lex.currentPosition >= Len(lex.input) THEN lex
    ELSE advance(lex, lex.currentPosition
                        + (IF lex.currentWidth = 0 THEN 0 ELSE 1))

forward(lex) ==
    IF lex.currentPosition >= Len(lex.input) THEN lex
    ELSE advance(lex, lex.currentPosition + lex.currentWidth)

\* Faulty variant of NewLexer: the column starts at 0 before the first forward.
NewLexerColumnZero(input) ==
    IF Len(input) = 0 THEN Lexer(<<>>, 0, 0, 0, 1, 0)
    ELSE forward(Lexer(input, 0, 0, 0, 1, 0))

NewLexer(input) ==
    IF Len(input) = 0 THEN Lexer(<<>>, 0, 0, 0, 1, 0)
    ELSE forward(Lexer(input, 0, 0, 0, 1, -1))

\* Faulty variant of nextLine: the column restarts at 0, not at -1.
nextLineColumnZero(lex) == [lex EXCEPT !.line = lex.line + 1, !.column = 0]

nextLine(lex) == [lex EXCEPT !.line = lex.line + 1, !.column = -1]

\* Faulty variant of peekChar: the byte under the cursor, not the next one.
peekCharAtCursor(lex) ==
    LET npos == lex.currentPosition
    IN  IF npos >= Len(lex.input) THEN 0 ELSE byteAt(lex.input, npos)

peekChar(lex) ==
    LET npos == lex.currentPosition + lex.currentWidth
    IN  IF npos >= Len(lex.input) THEN 0 ELSE byteAt(lex.input, npos)

RECURSIVE skipWhitespace(_)
skipWhitespace(lex) ==
    IF lex.current \in {ch.sp, ch.tab, ch.cr} THEN skipWhitespace(forward(lex))
    ELSE IF lex.current = ch.lf THEN skipWhitespace(forward(nextLine(lex)))
    ELSE lex

\* Faulty variant of monotok: the column of the character after the token.
monotokNextColumn(lex, tokenType) ==
    Token(tokenType, runeString(lex.current), lex.line, lex.column + 1)

monotok(lex, tokenType) ==
    Token(tokenType, runeString(lex.current), lex.line, lex.column)

----------------------------------------------------------------------------
(* Readers: each moves the cursor forward to build a token and yields the   *)
(* moved lexer, the token type (readNumber changes it) and the failure.     *)

Read(lex, typ, fail) == [lex |-> lex, typ |-> typ, fail |-> fail]

\* Faulty variant of readComment: a comment cut by the end of the input
\* fails the way a string does.
RECURSIVE readCommentMeetsEof(_, _)
readCommentMeetsEof(lex, typ) ==
    IF lex.current # ch.lf /\ lex.current # 0
    THEN readCommentMeetsEof(forward(lex), typ)
    ELSE Read(lex, typ, IF lex.current = 0 THEN EofInString ELSE NoFailure)

RECURSIVE readComment(_, _)
readComment(lex, typ) ==
    IF lex.current # ch.lf /\ lex.current # 0
    THEN readComment(forward(lex), typ)
    ELSE Read(lex, typ, NoFailure)

\* Faulty variant of readNumber: the second dot is consumed before failing.
RECURSIVE readNumberEatsSecondDot(_, _)
readNumberEatsSecondDot(lex, typ) ==
    LET run == lex.current
    IN  IF run = ch.dot THEN
            IF typ = "FLOAT" THEN Read(forward(lex), typ, TwoDotsInFloat)
            ELSE readNumberEatsSecondDot(forward(lex), "FLOAT")
        ELSE IF isStoprune(run) THEN Read(lex, typ, NoFailure)
        ELSE IF ~isDigit(run) THEN Read(lex, typ, NonDigitInNumber)
        ELSE readNumberEatsSecondDot(forward(lex), typ)

\* Faulty variant of readNumber: the token type is not kept once a dot was
\* read, so a failure after the fraction reports INT.
RECURSIVE readNumberForgetsFloat(_, _)
readNumberForgetsFloat(lex, typ) ==
    LET run == lex.current
    IN  IF run = ch.dot THEN
            IF typ = "FLOAT" THEN Read(lex, typ, TwoDotsInFloat)
            ELSE readNumberForgetsFloat(forward(lex), "FLOAT")
        ELSE IF isStoprune(run) THEN Read(lex, typ, NoFailure)
        ELSE IF ~isDigit(run) THEN Read(lex, "INT", NonDigitInNumber)
        ELSE readNumberForgetsFloat(forward(lex), typ)

\* Faulty variant of readNumber: the stop rune that ends the number is consumed.
RECURSIVE readNumberEatsStop(_, _)
readNumberEatsStop(lex, typ) ==
    LET run == lex.current
    IN  IF run = ch.dot THEN
            IF typ = "FLOAT" THEN Read(lex, typ, TwoDotsInFloat)
            ELSE readNumberEatsStop(forward(lex), "FLOAT")
        ELSE IF isStoprune(run) THEN Read(forward(lex), typ, NoFailure)
        ELSE IF ~isDigit(run) THEN Read(lex, typ, NonDigitInNumber)
        ELSE readNumberEatsStop(forward(lex), typ)

RECURSIVE readNumber(_, _)
readNumber(lex, typ) ==
    LET run == lex.current
    IN  IF run = ch.dot THEN
            IF typ = "FLOAT" THEN Read(lex, typ, TwoDotsInFloat)
            ELSE readNumber(forward(lex), "FLOAT")
        ELSE IF isStoprune(run) THEN Read(lex, typ, NoFailure)
        ELSE IF ~isDigit(run) THEN Read(lex, typ, NonDigitInNumber)
        ELSE readNumber(forward(lex), typ)

\* Faulty variant of readStringLoop: the closing quote is not consumed.
RECURSIVE readStringLoopLeavesQuote(_, _)
readStringLoopLeavesQuote(lex, typ) ==
    IF lex.current = 0 THEN Read(lex, typ, EofInString)
    ELSE IF lex.current = ch.lf THEN Read(lex, typ, NewlineInString)
    ELSE IF lex.current = ch.dquote THEN Read(lex, typ, NoFailure)
    ELSE IF lex.current = ch.backslash
        THEN readStringLoopLeavesQuote(forward(forward(lex)), typ)
    ELSE readStringLoopLeavesQuote(forward(lex), typ)

\* Faulty variant of readStringLoop: a backslash is an ordinary character.
RECURSIVE readStringLoopIgnoresEscape(_, _)
readStringLoopIgnoresEscape(lex, typ) ==
    IF lex.current = 0 THEN Read(lex, typ, EofInString)
    ELSE IF lex.current = ch.lf THEN Read(lex, typ, NewlineInString)
    ELSE IF lex.current = ch.dquote THEN Read(forward(lex), typ, NoFailure)
    ELSE readStringLoopIgnoresEscape(forward(lex), typ)

\* The loop of readString, entered after the opening quote was consumed.
RECURSIVE readStringLoop(_, _)
readStringLoop(lex, typ) ==
    IF lex.current = 0 THEN Read(lex, typ, EofInString)
    ELSE IF lex.current = ch.lf THEN Read(lex, typ, NewlineInString)
    ELSE IF lex.current = ch.dquote THEN Read(forward(lex), typ, NoFailure)
    ELSE IF lex.current = ch.backslash
        THEN readStringLoop(forward(forward(lex)), typ)
    ELSE readStringLoop(forward(lex), typ)

readString(lex, typ) == readStringLoop(forward(lex), typ)

\* Faulty variant of symbolRun: a digit ends the run.
RECURSIVE symbolRunStopsAtDigit(_)
symbolRunStopsAtDigit(lex) ==
    IF canStartSymbol(lex.current)
    THEN symbolRunStopsAtDigit(forward(lex))
    ELSE lex

\* The loop of readSymbol: the run of symbol characters and digits.
RECURSIVE symbolRun(_)
symbolRun(lex) ==
    IF canStartSymbol(lex.current) \/ isDigit(lex.current)
    THEN symbolRun(forward(lex))
    ELSE lex

\* The check of readSymbol on what follows the run: l is the lexer after it.
symbolSuffix(l, typ) ==
    IF \/ isStoprune(l.current)
       \/ (l.current = ch.dot /\ canStartSymbol(peekChar(l)))
    THEN Read(l, typ, NoFailure)
    ELSE Read(l, typ,
              WithStrhex(InvalidAfterSymbol,
                         runeString(l.current)
                           \o (IF l.current = ch.dot
                               THEN runeString(peekChar(l))
                               ELSE <<>>)))

readSymbol(lex, typ) == symbolSuffix(symbolRun(lex), typ)

\* What a NextToken call hands back: the moved lexer and the two return values.
Return(lex, tok, err) == [lex |-> lex, tok |-> tok, err |-> err]

\* fun(lex, &tok) in read: fun names the reader.
runReader(fun, lex, typ) ==
    CASE fun = "readComment" -> readComment(lex, typ)
      [] fun = "readNumber" -> readNumber(lex, typ)
      [] fun = "readString" -> readString(lex, typ)
      [] fun = "readSymbol" -> readSymbol(lex, typ)

\* Faulty variant of readToken: line and column are taken after the reader ran.
readTokenLatePosition(lex, r) ==
    Token(r.typ,
          slice(lex.input, lex.currentPosition, r.lex.currentPosition),
          r.lex.line, r.lex.column)

\* Faulty variant of readToken: a symbol spelled as one of the words def,
\* let, fun, struct and lambda gets a kind of its own.
readTokenLooksUp(lex, r) ==
    Token(IF /\ r.typ = "SYMBOL"
             /\ slice(lex.input, lex.currentPosition, r.lex.currentPosition)
                  \in {<<100, 101, 102>>, <<108, 101, 116>>,
                       <<102, 117, 110>>,
                       <<115, 116, 114, 117, 99, 116>>,
                       <<108, 97, 109, 98, 100, 97>>}
          THEN "PREDEFINED"
          ELSE r.typ,
          slice(lex.input, lex.currentPosition, r.lex.currentPosition),
          lex.line, lex.column)

\* Faulty variant of readToken: start is taken after the first character.
readTokenAfterFirst(lex, r) ==
    Token(r.typ,
          slice(lex.input, lex.currentPosition + lex.currentWidth,
                r.lex.currentPosition),
          lex.line, lex.column)

\* The token read builds: type and cursor as the reader r left them, line,
\* column and start as the lexer had them before the reader ran.
readToken(lex, r) ==
    Token(r.typ,
          slice(lex.input, lex.currentPosition, r.lex.currentPosition),
          lex.line, lex.column)

\* Faulty variant of readResult: the token is handed back next to the error.
readResultKeepsToken(r, tok) ==
    IF r.fail # NoFailure
    THEN Return(r.lex, tok, LexicalError(tok, r.fail))
    ELSE Return(r.lex, tok, NoError)

\* What read returns for the token tok built from the reader's result r.
readResult(r, tok) ==
    IF r.fail # NoFailure
    THEN Return(r.lex, ZeroToken, LexicalError(tok, r.fail))
    ELSE Return(r.lex, tok, NoError)

\* read after the reader ran.
readDone(lex, r) == readResult(r, readToken(lex, r))

read(lex, fun, typ) == readDone(lex, runReader(fun, lex, typ))

\* Faulty variant of emit: the current character is not skipped.
emitKeepsCursor(lex, tok) == Return(lex, tok, NoError)

\* The end of NextToken for a token built in place: the current character is
\* part of the returned token, so it is skipped.
emit(lex, tok) == Return(forward(lex), tok, NoError)

\* A branch of the dispatch switch: the reader to run, or "monotok" for a
\* token built in place, and the token type.
Branch(fun, typ) == [fun |-> fun, typ |-> typ]

\* The dispatch switch of NextToken: the branch taken for the current
\* character c, pk being peekChar().
branch(c, pk) ==
    CASE c = ch.lparen -> Branch("monotok", "LPAREN")
      [] c = ch.rparen -> Branch("monotok", "RPAREN")
      [] c = ch.lbrace -> Branch("monotok", "LBRACE")
      [] c = ch.rbrace -> Branch("monotok", "RBRACE")
      [] c = ch.lbracket -> Branch("monotok", "LBRACKET")
      [] c = ch.rbracket -> Branch("monotok", "RBRACKET")
      [] c = ch.dot ->
            IF isDigit(pk) THEN Branch("readNumber", "INT")
            ELSE Branch("monotok", "DOT")
      [] c = ch.colon -> Branch("monotok", "COLON")
      [] c = ch.pipe -> Branch("monotok", "PIPE")
      [] c = ch.squote -> Branch("monotok", "QUOTE")
      [] c = ch.under -> Branch("monotok", "UNDER")
      [] c = ch.dquote -> Branch("readString", "STRING")
      [] c = ch.semi -> Branch("readComment", "COMMENT")
      [] c = 0 -> Branch("eof", "EOF")
      [] OTHER ->
            IF canStartSymbol(c) THEN Branch("readSymbol", "SYMBOL")
            ELSE IF isDigit(c) THEN Branch("readNumber", "INT")
            ELSE Branch("monotok", "ILLEGAL")

\* The body of the branch b, on the lexer after whitespace skipping.
take(lex, b) ==
    IF b.fun = "monotok" THEN emit(lex, monotok(lex, b.typ))
    ELSE IF b.fun = "eof"
        THEN emit(lex, Token("EOF", <<>>, lex.line, lex.column))
    ELSE read(lex, b.fun, b.typ)

dispatch(lex) == take(lex, branch(lex.current, peekChar(lex)))

NextToken(lex) == dispatch(skipWhitespace(lex))

----------------------------------------------------------------------------
(* Inputs *)

\* Basic symbols: 'def let fun struct lambda'
inBasicSymbols ==
    <<100, 101, 102, 32, 108, 101, 116, 32, 102, 117, 110, 32, 115, 116,
      114, 117, 99, 116, 32, 108, 97, 109, 98, 100, 97>>

\* Numbers: '123 45.67 89.0'
inNumbers ==
    <<49, 50, 51, 32, 52, 53, 46, 54, 55, 32, 56, 57, 46, 48>>

\* Strings: '"hello" "world"'
inStrings ==
    <<34, 104, 101, 108, 108, 111, 34, 32, 34, 119, 111, 114, 108, 100, 34>>

\* Comment at start of line: '; This is a comment\n123'
inCommentAtStartOfLine ==
    <<59, 32, 84, 104, 105, 115, 32, 105, 115, 32, 97, 32, 99, 111, 109,
      109, 101, 110, 116, 10, 49, 50, 51>>

\* Symbols with special characters: 'a-b_c/d*e'
inSymbolsWithSpecialCharacters ==
    <<97, 45, 98, 95, 99, 47, 100, 42, 101>>

\* Method call: 'obj.method(arg)'
inMethodCall ==
    <<111, 98, 106, 46, 109, 101, 116, 104, 111, 100, 40, 97, 114, 103, 41>>

\* Mixed symbols and numbers: 'a123 b45.67'
inMixedSymbolsAndNumbers ==
    <<97, 49, 50, 51, 32, 98, 52, 53, 46, 54, 55>>

\* Parens and braces: '(a [b] {c})'
inParensAndBraces ==
    <<40, 97, 32, 91, 98, 93, 32, 123, 99, 125, 41>>

\* Special characters: ". : | ' _"
inSpecialCharacters ==
    <<46, 32, 58, 32, 124, 32, 39, 32, 95>>

\* Comment at end of line: 'ignore the rest ; !!!!!@#'
inCommentAtEndOfLine ==
    <<105, 103, 110, 111, 114, 101, 32, 116, 104, 101, 32, 114, 101, 115,
      116, 32, 59, 32, 33, 33, 33, 33, 33, 64, 35>>

\* Illegal characters: '!@#'
inIllegalCharacters ==
    <<33, 64, 35>>

\* Whitespace: ' \t\n '
inWhitespace ==
    <<32, 9, 10, 32>>

\* Unterminated string: '"hello'
inUnterminatedString ==
    <<34, 104, 101, 108, 108, 111>>

\* Unescaped newline in string: '"hello\n"'
inUnescapedNewlineInString ==
    <<34, 104, 101, 108, 108, 111, 10, 34>>

\* String with escaped characters: '"hello\\nworld\\t\\"quoted\\"\\\\escaped\\\\"'
inStringWithEscapedCharacters ==
    <<34, 104, 101, 108, 108, 111, 92, 110, 119, 111, 114, 108, 100, 92,
      116, 92, 34, 113, 117, 111, 116, 101, 100, 92, 34, 92, 92, 101,
      115, 99, 97, 112, 101, 100, 92, 92, 34>>

\* Unicode characters: '\u4f60\u597d\u4e16\u754c ; This is a comment with Unicode: \u3053\u3093\u306b\u3061\u306f'
inUnicodeCharacters ==
    <<228, 189, 160, 229, 165, 189, 228, 184, 150, 231, 149, 140, 32, 59,
      32, 84, 104, 105, 115, 32, 105, 115, 32, 97, 32, 99, 111, 109,
      109, 101, 110, 116, 32, 119, 105, 116, 104, 32, 85, 110, 105, 99,
      111, 100, 101, 58, 32, 227, 129, 147, 227, 130, 147, 227, 129,
      171, 227, 129, 161, 227, 129, 175>>

\* Long numbers: '12345678901234567890 1234567890.1234567890'
inLongNumbers ==
    <<49, 50, 51, 52, 53, 54, 55, 56, 57, 48, 49, 50, 51, 52, 53, 54, 55,
      56, 57, 48, 32, 49, 50, 51, 52, 53, 54, 55, 56, 57, 48, 46, 49,
      50, 51, 52, 53, 54, 55, 56, 57, 48>>

\* Float without leading zero: '.123'
inFloatWithoutLeadingZero ==
    <<46, 49, 50, 51>>

\* Multiple dots in float: '1.2.3'
inMultipleDotsInFloat ==
    <<49, 46, 50, 46, 51>>

\* Int then non digit: '1abc'
inIntThenNonDigit ==
    <<49, 97, 98, 99>>

\* Float then non digit: '1.0abc'
inFloatThenNonDigit ==
    <<49, 46, 48, 97, 98, 99>>

\* Zero width characters: 'a \u200b\u200cb'
inZeroWidthCharacters ==
    <<97, 32, 226, 128, 139, 226, 128, 140, 98>>

\* BOM character: '\ufeffabc'
inBomCharacter ==
    <<239, 187, 191, 97, 98, 99>>

\* Symbol followed by pipe: 'lost|'
inSymbolFollowedByPipe ==
    <<108, 111, 115, 116, 124>>

\* Symbol followed by dot one: 'lost.1'
inSymbolFollowedByDotOne ==
    <<108, 111, 115, 116, 46, 49>>

\* Empty string: '""'
inEmptyString ==
    <<34, 34>>

\* String with only whitespace: '" \\t\\r\\n "'
inStringWithOnlyWhitespace ==
    <<34, 32, 92, 116, 92, 114, 92, 110, 32, 34>>

\* Dot followed by colon: '.:'
inDotFollowedByColon ==
    <<46, 58>>

\* More illegal characters: '\xa7\xb1~`\xb0\u2022'
inMoreIllegalCharacters ==
    <<194, 167, 194, 177, 126, 96, 194, 176, 226, 128, 162>>

\* CRLF line endings: 'abc\r\ndef'
inCrlfLineEndings ==
    <<97, 98, 99, 13, 10, 100, 101, 102>>

\* Tab character: 'abc\tdef'
inTabCharacter ==
    <<97, 98, 99, 9, 100, 101, 102>>

\* More escaped characters in string: '"\\\\ \\\\\\r \\b \\f \\v \\040 \\x41"'
inMoreEscapedCharactersInString ==
    <<34, 92, 92, 32, 92, 92, 92, 114, 32, 92, 98, 32, 92, 102, 32, 92, 118,
      32, 92, 48, 52, 48, 32, 92, 120, 52, 49, 34>>

\* The inputs of the test table, the empty input included.
TestInputs ==
    {<<>>,
     inBasicSymbols,
     inNumbers,
     inStrings,
     inCommentAtStartOfLine,
     inSymbolsWithSpecialCharacters,
     inMethodCall,
     inMixedSymbolsAndNumbers,
     inParensAndBraces,
     inSpecialCharacters,
     inCommentAtEndOfLine,
     inIllegalCharacters,
     inWhitespace,
     inUnterminatedString,
     inUnescapedNewlineInString,
     inStringWithEscapedCharacters,
     inUnicodeCharacters,
     inLongNumbers,
     inFloatWithoutLeadingZero,
     inMultipleDotsInFloat,
     inIntThenNonDigit,
     inFloatThenNonDigit,
     inZeroWidthCharacters,
     inBomCharacter,
     inSymbolFollowedByPipe,
     inSymbolFollowedByDotOne,
     inEmptyString,
     inStringWithOnlyWhitespace,
     inDotFollowedByColon,
     inMoreIllegalCharacters,
     inCrlfLineEndings,
     inTabCharacter,
     inMoreEscapedCharactersInString}

\* Numbers, symbols and what may follow them.
AlphaNumber ==
    {ch.one, ch.dot, ch.a, ch.minus, ch.sp, ch.pipe, ch.lparen, ch.rbracket}

\* Strings, escapes, comments, whitespace and lines.
AlphaString ==
    {ch.dquote, ch.backslash, ch.lf, ch.cr, ch.tab, ch.sp, ch.a, ch.semi}

\* Multi-byte characters: 195 169 is U+00E9 and 215 144 is U+05D0 (letters),
\* 195 151 is U+00D7 (no letter); the other arrangements of these five
\* bytes are invalid UTF-8.
AlphaUnicode == {195, 169, 151, 215, 144, ch.a, ch.dot, ch.one}

\* Single-character tokens, illegal characters and the zero byte.
AlphaMisc ==
    {ch.nul, ch.under, ch.bang, ch.colon, ch.squote, ch.a, ch.lf, ch.rparen}

\* The zero byte inside strings, comments and numbers.
AlphaZero ==
    {ch.nul, ch.dquote, ch.lf, ch.semi, ch.backslash, ch.a, ch.one, ch.dot}

Alphabets == {AlphaNumber, AlphaString, AlphaUnicode, AlphaMisc, AlphaZero}

\* Every string over alphabet A of at most MaxLen bytes.
Strings(A) == UNION {[1..n -> A] : n \in 0..MaxLen}

Inputs == TestInputs \cup UNION {Strings(A) : A \in Alphabets}

----------------------------------------------------------------------------
(* State *)

\* lex: the Lexer.  tok, err: what the last NextToken call returned.
\* calls: the log of the NextToken calls made so far.
\* built: two LexicalFailure values under comparison, each with the base
\* failure it was built from.
VARIABLES lex, tok, err, calls, built, main

vars == <<lex, tok, err, calls, built, main>>

\* The driver's record: where main stands (pc), how many lines the scanner
\* has handed over (lines), the calls made to fmt since the last prompt
\* (printed), and what the calls of lexer.NextToken() of the inner loop hand
\* back, one after the other (returns).
Main(pc, lines, printed, returns) ==
    [pc |-> pc, lines |-> lines, printed |-> printed, returns |-> returns]

\* The lexer used on its own, without the driver.
NoMain == Main("none", 0, <<>>, <<>>)

\* A LexicalFailure value (is) and the constant it was built from (of).
Built(base, failure) == [of |-> base, is |-> failure]

NothingBuilt ==
    [lf |-> Built(NoFailure, NoFailure), other |-> Built(NoFailure, NoFailure)]

input == lex.input

\* One entry of the log: the cursor, line and column before the call (pos0,
\* line0, column0), the lexer after whitespace skipping (start), the cursor
\* after the call (end), and the two return values.
Call(before, skipped, r) ==
    [pos0 |-> before.currentPosition,
     line0 |-> before.line,
     column0 |-> before.column,
     start |-> skipped.currentPosition,
     startLine |-> skipped.line,
     startColumn |-> skipped.column,
     end |-> r.lex.currentPosition,
     tok |-> r.tok,
     err |-> r.err]

\* Calls made while the cursor was already parked at the end of the input.
callsAtEnd == Cardinality({k \in 1..Len(calls) : calls[k].pos0 >= Len(input)})

Init ==
    \E s \in Inputs :
        /\ lex = NewLexer(s)
        /\ tok = ZeroToken
        /\ err = NoError
        /\ calls = <<>>
        /\ built = NothingBuilt
        /\ main = NoMain

\* The state after a call that handed back r.
Returned(r) ==
    /\ lex' = r.lex
    /\ tok' = r.tok
    /\ err' = r.err
    /\ calls' = Append(calls, Call(lex, skipWhitespace(lex), r))
    /\ UNCHANGED built

\* One call of lex.NextToken() by the driver.
CallNextToken ==
    /\ callsAtEnd < ExtraCalls
    /\ Len(calls) < Len(input) + ExtraCalls
    /\ Returned(NextToken(lex))
    /\ UNCHANGED main

Next == CallNextToken

Spec == Init /\ [][Next]_vars

----------------------------------------------------------------------------
(* LexicalFailure values on their own: Cause, Same and WithStrhex *)

MaxValueLen == 2

\* Bytes of the values given to WithStrhex: the separator's two bytes and a
\* letter, so that a value can itself hold ": ".
AlphaValue == {ch.colon, ch.sp, ch.a}

Values == UNION {[1..n -> AlphaValue] : n \in 0..MaxValueLen}

InitFailure ==
    /\ lex = NewLexer(<<>>)
    /\ tok = ZeroToken
    /\ err = NoError
    /\ calls = <<>>
    /\ main = NoMain
    /\ \E f \in BaseFailures, g \in BaseFailures :
           built = [lf |-> Built(f, f), other |-> Built(g, g)]

\* lf = lf.WithStrhex(value), on a failure not extended yet.
ExtendLf ==
    /\ built.lf.is = built.lf.of
    /\ \E value \in Values :
           built' = [built EXCEPT !.lf.is = WithStrhex(built.lf.is, value)]
    /\ UNCHANGED <<lex, tok, err, calls, main>>

\* other = other.WithStrhex(value), on a failure not extended yet.
ExtendOther ==
    /\ built.other.is = built.other.of
    /\ \E value \in Values :
           built' = [built EXCEPT
                        !.other.is = WithStrhex(built.other.is, value)]
    /\ UNCHANGED <<lex, tok, err, calls, main>>

NextFailure == ExtendLf \/ ExtendOther

SpecFailure == InitFailure /\ [][NextFailure]_vars

----------------------------------------------------------------------------
(* The driver: main reads lines and prints the tokens of each *)

MaxLineLen == 3
MaxLines == 2

\* Bytes of the lines typed at the prompt: a letter, a digit, a character no
\* token starts with, the double quote and the zero byte.
AlphaLine == {ch.a, ch.one, ch.bang, ch.dquote, ch.nul}

\* What scanner.Text() can hand over: bufio.ScanLines cuts at the line feed
\* and drops one trailing carriage return.
Lines ==
    {s \in TestInputs \cup UNION {[1..n -> AlphaLine] : n \in 0..MaxLineLen} :
        /\ \A p \in 1..Len(s) : s[p] # ch.lf
        /\ s = <<>> \/ s[Len(s)] # ch.cr}

\* The calls main makes to fmt, with their argument.
Println(e) == [fn |-> "Println", arg |-> e]
Printf(t) == [fn |-> "Printf", arg |-> t]

\* Faulty variant of body: the loop goes on after an error.
bodyGoesOn(m, r) ==
    IF ~r.err.nil
    THEN [m EXCEPT !.printed = Append(@, Println(r.err))]
    ELSE IF r.tok.Type \in {"EOF", "ILLEGAL"}
    THEN [m EXCEPT !.pc = "prompt"]
    ELSE [m EXCEPT !.printed = Append(@, Printf(r.tok))]

\* Faulty variant of body: the EOF token is printed before the loop ends.
bodyPrintsEof(m, r) ==
    IF ~r.err.nil
    THEN [m EXCEPT !.pc = "prompt", !.printed = Append(@, Println(r.err))]
    ELSE IF r.tok.Type \in {"EOF", "ILLEGAL"}
    THEN [m EXCEPT !.pc = "prompt", !.printed = Append(@, Printf(r.tok))]
    ELSE [m EXCEPT !.printed = Append(@, Printf(r.tok))]

\* The body of the inner loop once NextToken handed back r: an error is
\* printed and ends the loop, an EOF or ILLEGAL token ends it unprinted, any
\* other token is printed.
body(m, r) ==
    IF ~r.err.nil
    THEN [m EXCEPT !.pc = "prompt", !.printed = Append(@, Println(r.err))]
    ELSE IF r.tok.Type \in {"EOF", "ILLEGAL"}
    THEN [m EXCEPT !.pc = "prompt"]
    ELSE [m EXCEPT !.printed = Append(@, Printf(r.tok))]

\* What lexer l hands back call after call, up to the first result that ends
\* the inner loop, in at most n calls.
RECURSIVE returns(_, _), returnsAfter(_, _)
returns(l, n) == IF n = 0 THEN <<>> ELSE returnsAfter(NextToken(l), n)

returnsAfter(r, n) ==
    IF body(Main("lexing", 0, <<>>, <<>>), r).pc = "lexing"
    THEN <<r>> \o returns(r.lex, n - 1)
    ELSE <<r>>

\* main at its first prompt; no lexer exists yet, lex holds the one of the
\* empty line.
InitMain ==
    /\ lex = NewLexer(<<>>)
    /\ tok = ZeroToken
    /\ err = NoError
    /\ calls = <<>>
    /\ built = NothingBuilt
    /\ main = Main("prompt", 0, <<>>, <<>>)

\* scanner.Scan() hands over a line: a lexer is created on it.
Scan ==
    /\ main.pc = "prompt"
    /\ main.lines < MaxLines
    /\ \E s \in Lines :
           /\ lex' = NewLexer(s)
           /\ main' = Main("lexing", main.lines + 1, <<>>,
                           returns(NewLexer(s), Len(s) + ExtraCalls))
    /\ tok' = ZeroToken
    /\ err' = NoError
    /\ calls' = <<>>
    /\ UNCHANGED built

\* scanner.Scan() reports the end of the standard input: main returns.
Exit ==
    /\ main.pc = "prompt"
    /\ main' = [main EXCEPT !.pc = "exit"]
    /\ UNCHANGED <<lex, tok, err, calls, built>>

\* One turn of the inner loop: tok, err := lexer.NextToken() and the body.
\* The lexer is deterministic: what the call hands back is read from
\* main.returns, where Scan put it.
Iterate ==
    /\ main.pc = "lexing"
    /\ Len(calls) < Len(main.returns)
    /\ Returned(main.returns[Len(calls) + 1])
    /\ main' = body(main, main.returns[Len(calls) + 1])

NextMain == Scan \/ Exit \/ Iterate

\* The inner loop is straight-line code of the one goroutine: it keeps
\* running; reading a line waits for the user.
SpecMain == InitMain /\ [][NextMain]_vars /\ WF_vars(Iterate)

----------------------------------------------------------------------------
(* Vocabulary of the properties, read off the input alone *)

\* The token a call reported: the plain token, or the one its error carries.
returned(c) == IF c.err.nil THEN c.tok ELSE c.err.Token

\* The call returned an EOF token and a nil error.
isEOF(c) == c.err.nil /\ c.tok.Type = "EOF"

\* The call returned a LexicalError with the given cause.
failedWith(c, cause) == ~c.err.nil /\ Cause(c.err.Reason) = cause

hasByte(s, p, b) == p >= 0 /\ p < Len(s) /\ byteAt(s, p) = b

hasDigit(s, p) == p >= 0 /\ p < Len(s) /\ byteAt(s, p) \in 48..57

\* The position after the run of ASCII digits that starts at p.
RECURSIVE digitsEnd(_, _)
digitsEnd(s, p) == IF hasDigit(s, p) THEN digitsEnd(s, p + 1) ELSE p

\* A number starts at p: a digit, or a dot directly followed by a digit.
numberStart(s, p) == hasDigit(s, p) \/ (hasByte(s, p, 46) /\ hasDigit(s, p + 1))

\* A dot follows the leading digits of the number at p.
hasFraction(s, p) == hasByte(s, digitsEnd(s, p), 46)

\* The position after the longest prefix digits [ '.' digits ] at p.
numberEnd(s, p) ==
    IF hasFraction(s, p) THEN digitsEnd(s, digitsEnd(s, p) + 1)
    ELSE digitsEnd(s, p)

\* The number of decoded characters of s in the byte range from .. to-1.
RECURSIVE countRunes(_, _, _)
countRunes(s, from, to) ==
    IF from >= to THEN 0
    ELSE 1 + countRunes(s, from + DecodeRuneInString(s, from).w, to)

\* The number of newline bytes of s before position p.
newlinesBefore(s, p) == Cardinality({q \in 0..(p - 1) : byteAt(s, q) = 10})

\* The position after the last newline before p (0 when there is none).
lineStart(s, p) ==
    LET nl == {q \in 0..(p - 1) : byteAt(s, q) = 10}
    IN  IF nl = {} THEN 0 ELSE 1 + CHOOSE q \in nl : \A o \in nl : o <= q

\* Skipped whitespace and reported literals of calls 1..k, in call order.
RECURSIVE concat(_, _)
concat(log, k) ==
    IF k = 0 THEN <<>>
    ELSE concat(log, k - 1)
           \o slice(lex.input, log[k].pos0, log[k].start)
           \o returned(log[k]).Literal

\* What the test table expects of one call (cause is NoFailure when it did not fail).
Expected(typ, literal, line, column, cause) ==
    [Type |-> typ, Literal |-> literal, Line |-> line, Column |-> column,
     Cause |-> cause]

Observed(c) ==
    Expected(returned(c).Type, returned(c).Literal, returned(c).Line,
             returned(c).Column, Cause(c.err.Reason))

\* The first Len(want) calls on input s gave exactly want.
Yields(s, want) ==
    (input = s /\ Len(calls) >= Len(want))
        => \A k \in 1..Len(want) : Observed(calls[k]) = want[k]

----------------------------------------------------------------------------
(* C1: once a NextToken call has returned EOF, every later call returns EOF *)
(* too, with a nil error and the same line and column.                      *)
C1_EofIsTerminal ==
    \A i, j \in 1..Len(calls) :
        (i < j /\ isEOF(calls[i]))
            => /\ isEOF(calls[j])
               /\ calls[j].tok.Line = calls[i].tok.Line
               /\ calls[j].tok.Column = calls[i].tok.Column

(* C2: every call made while the cursor is before the end of the input      *)
(* advances currentPosition by at least one byte, whether or not it fails,  *)
(* a call made at the end returns EOF and stays there, and EOF is returned  *)
(* within Len(input) + 1 calls.                                             *)
C2_NeverStuck ==
    /\ \A k \in 1..Len(calls) :
          IF calls[k].pos0 < Len(input)
          THEN calls[k].end > calls[k].pos0
          ELSE isEOF(calls[k]) /\ calls[k].end = Len(input)
    /\ Len(calls) > Len(input)
          => \E k \in 1..(Len(input) + 1) :
                isEOF(calls[k]) /\ calls[k].end = Len(input)

\* A failed call that advanced, on an input that needed all Len(input) + 1 calls.
C2_Witness ==
    /\ Len(input) >= 2
    /\ Len(calls) = Len(input) + 1
    /\ isEOF(calls[Len(calls)])
    /\ ~isEOF(calls[Len(calls) - 1])
    /\ \E k \in 1..Len(calls) : ~calls[k].err.nil /\ calls[k].end > calls[k].pos0

(* C3: round trip: up to the first EOF, the skipped whitespace and the      *)
(* reported literals concatenate to exactly the bytes the cursor has moved  *)
(* over, and at the first EOF to the whole input.                           *)
C3_RoundTrip ==
    \A k \in 1..Len(calls) :
        (\A i \in 1..(k - 1) : ~isEOF(calls[i]))
            => /\ concat(calls, k) = slice(input, 0, calls[k].end)
               /\ isEOF(calls[k]) => concat(calls, k) = input

(* C4: every call returns exactly one outcome: a token of a set kind with a *)
(* nil error, or a LexicalError carrying the malformed token together with  *)
(* the zero Token.                                                          *)
C4_OneOutcome ==
    calls # <<>> =>
        \/ /\ err = NoError
           /\ tok.Type \in TokenTypes
        \/ /\ ~err.nil
           /\ tok = ZeroToken
           /\ err.Token.Type \in TokenTypes
           /\ err.Reason # NoFailure

\* Both outcomes happened on one input: a token, then an error.
C4_Witness ==
    /\ Len(calls) >= 2
    /\ ~err.nil /\ tok = ZeroToken
    /\ calls[Len(calls) - 1].err.nil
    /\ calls[Len(calls) - 1].tok.Type = "SYMBOL"

(* C5: the column of every reported token is the number of decoded          *)
(* characters between the last newline before the token (or the start of    *)
(* the input) and the token's first character.                              *)
C5_ColumnCountsCharacters ==
    \A k \in 1..Len(calls) :
        returned(calls[k]).Column
            = countRunes(input, lineStart(input, calls[k].start), calls[k].start)

(* C6: the line of every reported token is 1 plus the number of newline     *)
(* characters before the token's first character.                           *)
C6_LineCountsNewlines ==
    \A k \in 1..Len(calls) :
        returned(calls[k]).Line = 1 + newlinesBefore(input, calls[k].start)

(* C7: the token carried by a LexicalError has the line and column of the   *)
(* cursor after whitespace skipping and, as literal, the input from there   *)
(* up to, not including, the character the cursor is left on.               *)
C7_ErrorCarriesSpan ==
    \A k \in 1..Len(calls) :
        ~calls[k].err.nil
            => /\ calls[k].err.Token.Line = calls[k].startLine
               /\ calls[k].err.Token.Column = calls[k].startColumn
               /\ calls[k].err.Token.Literal
                    = slice(input, calls[k].start, calls[k].end)
               /\ k = Len(calls) => calls[k].end = lex.currentPosition

\* A failure on the second line, after skipped whitespace, with a literal of
\* several bytes.
C7_Witness ==
    \E k \in 1..Len(calls) :
        /\ ~calls[k].err.nil
        /\ calls[k].start > calls[k].pos0
        /\ calls[k].startLine = 2
        /\ calls[k].startColumn > 0
        /\ Len(calls[k].err.Token.Literal) >= 2

(* C8: a number with a second dot (digits, dot, digits, dot) fails with     *)
(* TwoDotsInFloat, carrying FLOAT and everything before the second dot; the *)
(* second dot is not consumed and the next call starts on it.  1.2.3 gives  *)
(* failed FLOAT 1.2 at column 0, FLOAT .3 at column 3, EOF at column 5.     *)
C8_TwoDotsInFloat ==
    /\ \A k \in 1..Len(calls) :
          LET c == calls[k]
              q == numberEnd(input, c.start)
              twoDots == /\ numberStart(input, c.start)
                         /\ hasFraction(input, c.start)
                         /\ hasByte(input, q, 46)
          IN  /\ twoDots <=> failedWith(c, TwoDotsInFloat)
              /\ twoDots
                    => /\ c.err.Reason = TwoDotsInFloat
                       /\ c.tok = ZeroToken
                       /\ c.err.Token.Type = "FLOAT"
                       /\ c.err.Token.Literal = slice(input, c.start, q)
                       /\ c.end = q
                       /\ k < Len(calls) => calls[k + 1].start = q
    /\ Yields(inMultipleDotsInFloat,
              <<Expected("FLOAT", <<49, 46, 50>>, 1, 0, TwoDotsInFloat),
                Expected("FLOAT", <<46, 51>>, 1, 3, NoFailure),
                Expected("EOF", <<>>, 1, 5, NoFailure)>>)

\* 1.2.3 has been lexed to its EOF.
C8_Witness ==
    /\ input = inMultipleDotsInFloat
    /\ Len(calls) = 3
    /\ failedWith(calls[1], TwoDotsInFloat)
    /\ calls[2].start = 3

C10_SymbolSuffixRule ==
    \A k \in 1..Len(calls) :
        LET c == calls[k]
            q == c.end
            after == IF q < Len(input) THEN DecodeRuneInString(input, q)
                     ELSE [r |-> 0, w |-> 0]
            legal == \/ q >= Len(input)
                     \/ isStoprune(after.r)
                     \/ /\ after.r = 46
                        /\ q + 1 < Len(input)
                        /\ canStartSymbol(DecodeRuneInString(input, q + 1).r)
        IN  returned(c).Type = "SYMBOL"
                => /\ c.err.nil <=> legal
                   /\ ~c.err.nil => Cause(c.err.Reason) = InvalidAfterSymbol

----------------------------------------------------------------------------
(* Vocabulary of the string properties, read off the input alone *)

\* How a string whose first character after the opening quote is at p ends:
\* at the end of the input, at an unescaped newline, or at a closing quote;
\* a backslash escapes the one character that follows it.
RECURSIVE stringEnd(_, _)
stringEnd(s, p) ==
    IF p >= Len(s) THEN [how |-> "eof", at |-> Len(s)]
    ELSE IF byteAt(s, p) = ch.lf THEN [how |-> "newline", at |-> p]
    ELSE IF byteAt(s, p) = ch.dquote THEN [how |-> "closed", at |-> p]
    ELSE IF byteAt(s, p) = ch.backslash
    THEN IF p + 1 >= Len(s) THEN [how |-> "eof", at |-> Len(s)]
         ELSE stringEnd(s, p + 1 + DecodeRuneInString(s, p + 1).w)
    ELSE stringEnd(s, p + 1)

\* The call started on a double quote.
onQuote(c) == hasByte(lex.input, c.start, ch.dquote)

\* How the string the call started on ends.
ending(c) == stringEnd(lex.input, c.start + 1)

----------------------------------------------------------------------------
(* C11: a call that starts on a double quote fails with EofInString exactly *)
(* when the string runs to the end of the input before a closing quote; the *)
(* failure carries a STRING token with the line and column of the opening   *)
(* quote and the input from the opening quote to the end of the input, the  *)
(* cursor is then at the end of the input and the following call returns    *)
(* EOF.  No other call fails with EofInString.                              *)
C11_EofInString ==
    \A k \in 1..Len(calls) :
        /\ failedWith(calls[k], EofInString) => onQuote(calls[k])
        /\ onQuote(calls[k])
              => (failedWith(calls[k], EofInString)
                      <=> ending(calls[k]).how = "eof")
        /\ failedWith(calls[k], EofInString)
              => /\ calls[k].end = Len(input)
                 /\ calls[k].err.Token
                      = Token("STRING",
                              slice(input, calls[k].start, Len(input)),
                              calls[k].startLine, calls[k].startColumn)
                 /\ k < Len(calls) => isEOF(calls[k + 1])
    /\ Yields(inUnterminatedString,
              <<Expected("STRING", <<34, 104, 101, 108, 108, 111>>, 1, 0,
                         EofInString),
                Expected("EOF", <<>>, 1, 6, NoFailure)>>)

(* C12: a call that starts on a double quote fails with NewlineInString     *)
(* exactly when the string meets an unescaped newline before a closing      *)
(* quote; the failure's literal is the input from the opening quote up to,  *)
(* not including, that newline, the cursor is left on the newline and the   *)
(* line is unchanged, so that the next call starts by skipping that newline *)
(* and, when its token begins right after it, reports it on the following   *)
(* line at column 0.                                                        *)
C12_NewlineInString ==
    \A k \in 1..Len(calls) :
        /\ failedWith(calls[k], NewlineInString) => onQuote(calls[k])
        /\ onQuote(calls[k])
              => (failedWith(calls[k], NewlineInString)
                      <=> ending(calls[k]).how = "newline")
        /\ failedWith(calls[k], NewlineInString)
              => /\ calls[k].end = ending(calls[k]).at
                 /\ hasByte(input, calls[k].end, ch.lf)
                 /\ calls[k].err.Token
                      = Token("STRING",
                              slice(input, calls[k].start, calls[k].end),
                              calls[k].startLine, calls[k].startColumn)
                 /\ k < Len(calls)
                      => /\ calls[k + 1].pos0 = calls[k].end
                         /\ calls[k + 1].start > calls[k].end
                         /\ calls[k + 1].startLine > calls[k].startLine
                         /\ calls[k + 1].start = calls[k].end + 1
                              => /\ returned(calls[k + 1]).Line
                                      = calls[k].startLine + 1
                                 /\ returned(calls[k + 1]).Column = 0
    /\ Yields(inUnescapedNewlineInString,
              <<Expected("STRING", <<34, 104, 101, 108, 108, 111>>, 1, 0,
                         NewlineInString),
                Expected("STRING", <<34>>, 2, 0, EofInString),
                Expected("EOF", <<>>, 2, 1, NoFailure)>>)

(* C13, as stated: the literal of the token a call that starts on a double  *)
(* quote returns or carries in its failure is the input strictly between    *)
(* the quotes, from the character after the opening quote up to where the   *)
(* string ends.                                                             *)
C13_LiteralBetweenQuotes ==
    \A k \in 1..Len(calls) :
        onQuote(calls[k])
            => returned(calls[k]).Literal
                 = slice(input, calls[k].start + 1, ending(calls[k]).at)

(* C13, amended: the opening double quote is part of the literal.  A call   *)
(* returns or carries a STRING token exactly when it starts on a double     *)
(* quote, and that token's literal begins with the opening quote and is the *)
(* input from there up to the character the cursor is left on.              *)
C13_LiteralFromOpeningQuote ==
    \A k \in 1..Len(calls) :
        /\ onQuote(calls[k]) <=> returned(calls[k]).Type = "STRING"
        /\ onQuote(calls[k])
              => /\ calls[k].end > calls[k].start
                 /\ Head(returned(calls[k]).Literal) = ch.dquote
                 /\ returned(calls[k]).Literal
                      = slice(input, calls[k].start, calls[k].end)

\* A terminated string with text between its quotes, then a failed one.
C13_Witness ==
    \E k \in 1..Len(calls) :
        /\ k < Len(calls)
        /\ onQuote(calls[k])
        /\ calls[k].err.nil
        /\ Len(calls[k].tok.Literal) >= 3
        /\ onQuote(calls[k + 1])
        /\ ~calls[k + 1].err.nil

(* C14: a call that starts on a string terminated before any unescaped      *)
(* newline or the end of the input returns one STRING token with a nil      *)
(* error, the line and column of the opening quote, and as literal the      *)
(* input from the opening quote through the closing quote inclusive; the    *)
(* cursor is left right after the closing quote.                            *)
C14_StringLiteralWithQuotes ==
    /\ \A k \in 1..Len(calls) :
          (onQuote(calls[k]) /\ calls[k].err.nil)
              => /\ ending(calls[k]).how = "closed"
                 /\ calls[k].end = ending(calls[k]).at + 1
                 /\ calls[k].tok
                      = Token("STRING",
                              slice(input, calls[k].start,
                                    ending(calls[k]).at + 1),
                              calls[k].startLine, calls[k].startColumn)
                 /\ k = Len(calls)
                      => lex.currentPosition = ending(calls[k]).at + 1
    /\ Yields(inEmptyString,
              <<Expected("STRING", <<34, 34>>, 1, 0, NoFailure),
                Expected("EOF", <<>>, 1, 2, NoFailure)>>)
    /\ Yields(inStrings,
              <<Expected("STRING", <<34, 104, 101, 108, 108, 111, 34>>, 1, 0,
                         NoFailure),
                Expected("STRING", <<34, 119, 111, 114, 108, 100, 34>>, 1, 8,
                         NoFailure),
                Expected("EOF", <<>>, 1, 15, NoFailure)>>)

\* A terminated string holding an escaped quote.
C14_Witness ==
    \E k \in 1..Len(calls) :
        /\ onQuote(calls[k])
        /\ calls[k].err.nil
        /\ hasByte(input, calls[k].start + 1, ch.backslash)
        /\ hasByte(input, calls[k].start + 2, ch.dquote)
        /\ Len(calls[k].tok.Literal) = 4

----------------------------------------------------------------------------
(* Vocabulary of the dispatch properties, read off the input alone *)

\* The call started before the end of the input.
onCharacter(c) == c.start < Len(lex.input)

\* The character the call started on, and the one after it.
first(c) == DecodeRuneInString(lex.input, c.start)
second(c) == DecodeRuneInString(lex.input, c.start + first(c).w)

\* The bytes of the character the call started on.
firstBytes(c) == slice(lex.input, c.start, c.start + first(c).w)

Whitespace == {ch.sp, ch.tab, ch.cr, ch.lf}

\* ( ) { } [ ] . : | ' _ " ;
Punctuation ==
    {ch.lparen, ch.rparen, ch.lbrace, ch.rbrace, ch.lbracket, ch.rbracket,
     ch.dot, ch.colon, ch.pipe, ch.squote, ch.under, ch.dquote, ch.semi}

\* Any Unicode letter or one of _ - + / *
symbolStart(r) ==
    IsLetter(r) \/ r \in {ch.under, ch.minus, ch.plus, ch.slash, ch.star}

asciiDigit(r) == r >= ch.zero /\ r <= ch.nine

----------------------------------------------------------------------------
(* C15: a call that starts, before the end of the input, on a character     *)
(* that is no whitespace, none of ( ) { } [ ] . : | ' _ " ; , no            *)
(* symbol-start character and no ASCII digit returns an ILLEGAL token with  *)
(* a nil error, the bytes of that one character as literal and its line and *)
(* column, and moves the cursor by that one character.                      *)
C15_IllegalCharacter ==
    /\ \A k \in 1..Len(calls) :
          ( /\ onCharacter(calls[k])
            /\ first(calls[k]).r \notin Whitespace \cup Punctuation
            /\ ~symbolStart(first(calls[k]).r)
            /\ ~asciiDigit(first(calls[k]).r) )
              => /\ calls[k].err.nil
                 /\ calls[k].tok
                      = Token("ILLEGAL", firstBytes(calls[k]),
                              calls[k].startLine, calls[k].startColumn)
                 /\ calls[k].end = calls[k].start + first(calls[k]).w
    /\ Yields(inIllegalCharacters,
              <<Expected("ILLEGAL", <<33>>, 1, 0, NoFailure),
                Expected("ILLEGAL", <<64>>, 1, 1, NoFailure),
                Expected("ILLEGAL", <<35>>, 1, 2, NoFailure),
                Expected("EOF", <<>>, 1, 3, NoFailure)>>)

\* The call started on the byte b.
onByte(c, b) == hasByte(lex.input, c.start, b)

\* The character after the one the call started on is an ASCII digit.
digitFollows(c) ==
    /\ c.start + first(c).w < Len(lex.input)
    /\ asciiDigit(second(c).r)

(* C16: a call that starts on '.' scans a number, returning a FLOAT token   *)
(* or a number failure carrying a FLOAT token, with a literal that begins   *)
(* with that dot and the digit after it, exactly when the next character is *)
(* an ASCII digit; otherwise it returns the one-character DOT token with a  *)
(* nil error and moves the cursor by one character.                         *)
C16_DotThenDigit ==
    /\ \A k \in 1..Len(calls) :
          onByte(calls[k], ch.dot)
              => IF digitFollows(calls[k])
                 THEN /\ returned(calls[k]).Type = "FLOAT"
                      /\ Len(returned(calls[k]).Literal) >= 2
                      /\ SubSeq(returned(calls[k]).Literal, 1, 2)
                           = slice(input, calls[k].start, calls[k].start + 2)
                      /\ \/ calls[k].err.nil
                         \/ failedWith(calls[k], TwoDotsInFloat)
                         \/ failedWith(calls[k], NonDigitInNumber)
                 ELSE /\ calls[k].err.nil
                      /\ calls[k].tok
                           = Token("DOT", <<ch.dot>>, calls[k].startLine,
                                   calls[k].startColumn)
                      /\ calls[k].end = calls[k].start + 1
    /\ Yields(inFloatWithoutLeadingZero,
              <<Expected("FLOAT", <<46, 49, 50, 51>>, 1, 0, NoFailure),
                Expected("EOF", <<>>, 1, 4, NoFailure)>>)
    /\ Yields(inDotFollowedByColon,
              <<Expected("DOT", <<46>>, 1, 0, NoFailure),
                Expected("COLON", <<58>>, 1, 1, NoFailure),
                Expected("EOF", <<>>, 1, 2, NoFailure)>>)

\* A number failure that began on '.', and a DOT that something follows.
C16_Witness ==
    /\ \E k \in 1..Len(calls) :
          /\ onByte(calls[k], ch.dot)
          /\ digitFollows(calls[k])
          /\ ~calls[k].err.nil
    /\ \E k \in 1..Len(calls) :
          /\ onByte(calls[k], ch.dot)
          /\ ~digitFollows(calls[k])
          /\ calls[k].end < Len(input)

\* The call scanned a symbol that begins with the character it started on.
scannedSymbol(c) ==
    /\ returned(c).Type = "SYMBOL"
    /\ Len(returned(c).Literal) >= first(c).w
    /\ SubSeq(returned(c).Literal, 1, first(c).w) = firstBytes(c)
    /\ c.err.nil \/ failedWith(c, InvalidAfterSymbol)

Monotokens ==
    {<<ch.lparen, "LPAREN">>, <<ch.rparen, "RPAREN">>,
     <<ch.lbrace, "LBRACE">>, <<ch.rbrace, "RBRACE">>,
     <<ch.lbracket, "LBRACKET">>, <<ch.rbracket, "RBRACKET">>,
     <<ch.colon, "COLON">>, <<ch.pipe, "PIPE">>, <<ch.squote, "QUOTE">>,
     <<ch.under, "UNDER">>}

(* C18: a call that starts on one of ( ) { } [ ] : | ' _ returns, with a    *)
(* nil error and whatever follows, the one-character token of the matching  *)
(* kind with the line and column of that character, and moves the cursor by *)
(* that one character.                                                      *)
C18_OneCharacterTokens ==
    /\ \A k \in 1..Len(calls) :
          \A m \in Monotokens :
              onByte(calls[k], m[1])
                  => /\ calls[k].err.nil
                     /\ calls[k].tok
                          = Token(m[2], <<m[1]>>, calls[k].startLine,
                                  calls[k].startColumn)
                     /\ calls[k].end = calls[k].start + 1
    /\ Yields(inParensAndBraces,
              <<Expected("LPAREN", <<40>>, 1, 0, NoFailure),
                Expected("SYMBOL", <<97>>, 1, 1, NoFailure),
                Expected("LBRACKET", <<91>>, 1, 3, NoFailure),
                Expected("SYMBOL", <<98>>, 1, 4, NoFailure),
                Expected("RBRACKET", <<93>>, 1, 5, NoFailure),
                Expected("LBRACE", <<123>>, 1, 7, NoFailure),
                Expected("SYMBOL", <<99>>, 1, 8, NoFailure),
                Expected("RBRACE", <<125>>, 1, 9, NoFailure),
                Expected("RPAREN", <<41>>, 1, 10, NoFailure),
                Expected("EOF", <<>>, 1, 11, NoFailure)>>)
    /\ Yields(inSpecialCharacters,
              <<Expected("DOT", <<46>>, 1, 0, NoFailure),
                Expected("COLON", <<58>>, 1, 2, NoFailure),
                Expected("PIPE", <<124>>, 1, 4, NoFailure),
                Expected("QUOTE", <<39>>, 1, 6, NoFailure),
                Expected("UNDER", <<95>>, 1, 8, NoFailure),
                Expected("EOF", <<>>, 1, 9, NoFailure)>>)

\* An UNDER directly before a letter, on the second line, and a COLON
\* directly after a token.
C18_Witness ==
    /\ \E k \in 1..Len(calls) :
          /\ onByte(calls[k], ch.under)
          /\ hasByte(input, calls[k].start + 1, ch.a)
          /\ calls[k].startLine = 2
    /\ \E k \in 1..Len(calls) :
          /\ onByte(calls[k], ch.colon)
          /\ calls[k].start > 0
          /\ calls[k].pos0 = calls[k].start

\* The offset of the first newline at or after p, Len(s) when there is none.
RECURSIVE lineEnd(_, _)
lineEnd(s, p) ==
    IF p >= Len(s) \/ byteAt(s, p) = ch.lf THEN p ELSE lineEnd(s, p + 1)

(* C19: a call that starts on ';' returns, with a nil error, a COMMENT token *)
(* with the line and column of the ';' whose literal runs from the ';' up   *)
(* to, not including, the next newline, or to the end of the input; the     *)
(* cursor is left there and the line is unchanged, so that the next call    *)
(* starts by skipping the newline and, when its token begins right after    *)
(* it, reports it on the next line at column 0.                             *)
C19_Comment ==
    /\ \A k \in 1..Len(calls) :
          onByte(calls[k], ch.semi)
              => /\ calls[k].err.nil
                 /\ calls[k].tok
                      = Token("COMMENT",
                              slice(input, calls[k].start,
                                    lineEnd(input, calls[k].start)),
                              calls[k].startLine, calls[k].startColumn)
                 /\ calls[k].end = lineEnd(input, calls[k].start)
                 /\ (k < Len(calls) /\ calls[k].end < Len(input))
                      => /\ calls[k + 1].pos0 = calls[k].end
                         /\ calls[k + 1].start > calls[k].end
                         /\ calls[k + 1].startLine > calls[k].startLine
                         /\ calls[k + 1].start = calls[k].end + 1
                              => /\ returned(calls[k + 1]).Line
                                      = calls[k].startLine + 1
                                 /\ returned(calls[k + 1]).Column = 0
    /\ Yields(inCommentAtStartOfLine,
              <<Expected("COMMENT",
                         <<59, 32, 84, 104, 105, 115, 32, 105, 115, 32, 97,
                           32, 99, 111, 109, 109, 101, 110, 116>>, 1, 0,
                         NoFailure),
                Expected("INT", <<49, 50, 51>>, 2, 0, NoFailure),
                Expected("EOF", <<>>, 2, 3, NoFailure)>>)

----------------------------------------------------------------------------
(* C20: for two LexicalFailure values, each one of the five base failures   *)
(* or one of them extended by WithStrhex with some value, Same is true      *)
(* exactly when they were built from the same base failure; the Cause of    *)
(* each is the Cause of its base failure, which is the base failure itself. *)
C20_SameIgnoresSuffix ==
    /\ Same(built.lf.is, built.other.is) <=> built.lf.of = built.other.of
    /\ Same(built.other.is, built.lf.is) <=> built.lf.of = built.other.of
    /\ Cause(built.lf.is) = Cause(built.lf.of)
    /\ Cause(built.other.is) = Cause(built.other.of)
    /\ Cause(built.lf.of) = built.lf.of
    /\ Cause(built.other.of) = built.other.of

\* Two failures built from the same base failure with different values, one
\* of the values holding ": " itself.
C20_Witness ==
    /\ built.lf.of = built.other.of
    /\ built.lf.of \in BaseFailures
    /\ built.lf.is # built.lf.of
    /\ built.other.is # built.other.of
    /\ built.lf.is # built.other.is
    /\ LastIndex(built.lf.is, <<ch.colon, ch.sp>>) > Len(built.lf.of)

----------------------------------------------------------------------------
(* C21: before the first call the lexer is at currentPosition 0, line 1,    *)
(* column 0; on the empty input it is at the end already and the first call *)
(* returns EOF at line 1, column 0 and leaves the cursor at 0; on any other *)
(* input the current character is the first character of the input,         *)
(* decoded once.                                                            *)
C21_NewLexer ==
    /\ calls = <<>>
          => /\ lex.currentPosition = 0
             /\ lex.line = 1
             /\ lex.column = 0
             /\ IF Len(input) = 0
                THEN lex.current = 0
                ELSE /\ lex.current = DecodeRuneInString(input, 0).r
                     /\ lex.currentWidth = DecodeRuneInString(input, 0).w
    /\ (Len(input) = 0 /\ calls # <<>>)
          => /\ calls[1].err.nil
             /\ calls[1].tok = Token("EOF", <<>>, 1, 0)
             /\ calls[1].pos0 = 0
             /\ calls[1].end = 0
    /\ (Len(input) > 0 /\ calls # <<>>)
          => /\ calls[1].pos0 = 0
             /\ calls[1].start = 0
                  => /\ returned(calls[1]).Line = 1
                     /\ returned(calls[1]).Column = 0

\* The first call on the empty input has returned.
C21_Witness ==
    /\ Len(input) = 0
    /\ Len(calls) = 1
    /\ lex.currentPosition = 0

----------------------------------------------------------------------------
(* Vocabulary of the number properties, read off the input alone *)

\* The two-state machine {Int, Float} run on s from p: where it stops (at),
\* the state it is in (float) and how it stops: "accept" on a stop rune or
\* at the end of the input, "dot" on a '.' met in Float, "other" on anything
\* else that is no digit.
RECURSIVE machine(_, _, _)
machine(s, p, float) ==
    IF p >= Len(s) THEN [at |-> p, float |-> float, how |-> "accept"]
    ELSE IF hasDigit(s, p) THEN machine(s, p + 1, float)
    ELSE IF byteAt(s, p) = ch.dot
    THEN IF float THEN [at |-> p, float |-> float, how |-> "dot"]
         ELSE machine(s, p + 1, TRUE)
    ELSE IF isStoprune(byteAt(s, p))
    THEN [at |-> p, float |-> float, how |-> "accept"]
    ELSE [at |-> p, float |-> float, how |-> "other"]

\* The call started on a number, and what the machine makes of it.
onNumber(c) == numberStart(lex.input, c.start)
scanned(c) == machine(lex.input, c.start, FALSE)

\* The number of '.' in the literal.
dots(literal) == Cardinality({i \in 1..Len(literal) : literal[i] = ch.dot})

----------------------------------------------------------------------------
\* The offsets in p .. to-1 of the backslashes of s that escape the
\* character after them, p being the first offset after an opening quote.
RECURSIVE escapes(_, _, _)
escapes(s, p, to) ==
    IF p >= to THEN {}
    ELSE IF byteAt(s, p) # ch.backslash THEN escapes(s, p + 1, to)
    ELSE IF p + 1 >= Len(s) THEN {p}
    ELSE {p} \cup escapes(s, p + 1 + DecodeRuneInString(s, p + 1).w, to)

\* The escaping backslashes of the string the call scanned.
escaping(c) == escapes(lex.input, c.start + 1, c.end)

\* The offset of the character that ended the call's string: its closing
\* quote, or the character the failure stopped on.
terminator(c) == IF c.err.nil THEN c.end - 1 ELSE c.end

(* C23: in the string a call scans, the character after an escaping         *)
(* backslash is consumed whole as part of the literal and never ends the    *)
(* string, be it a double quote, a newline or a backslash; a backslash that *)
(* is itself escaped escapes nothing, so that a quote after two backslashes *)
(* closes the string; the literal is the source text as written.            *)
C23_Escapes ==
    /\ \A k \in 1..Len(calls) :
          onQuote(calls[k])
              => /\ returned(calls[k]).Literal
                      = slice(input, calls[k].start, calls[k].end)
                 /\ \A p \in escaping(calls[k]) :
                       /\ p + 1 < Len(input)
                            => /\ terminator(calls[k]) # p + 1
                               /\ calls[k].end
                                    >= p + 1
                                         + DecodeRuneInString(input, p + 1).w
                       /\ ( /\ hasByte(input, p + 1, ch.backslash)
                            /\ hasByte(input, p + 2, ch.dquote) )
                            => /\ calls[k].err.nil
                               /\ calls[k].end = p + 3
    /\ Yields(inStringWithEscapedCharacters,
              <<Expected("STRING", inStringWithEscapedCharacters, 1, 0,
                         NoFailure),
                Expected("EOF", <<>>, 1, 37, NoFailure)>>)
    /\ Yields(inMoreEscapedCharactersInString,
              <<Expected("STRING", inMoreEscapedCharactersInString, 1, 0,
                         NoFailure),
                Expected("EOF", <<>>, 1, 28, NoFailure)>>)

\* A terminated string that holds an escaped quote and ends on a quote that
\* follows two backslashes.
C23_Witness ==
    /\ input = inStringWithEscapedCharacters
    /\ Len(calls) >= 1
    /\ calls[1].err.nil
    /\ calls[1].end = 37
    /\ 15 \in escaping(calls[1])
    /\ 34 \in escaping(calls[1])
    /\ 35 \notin escaping(calls[1])

----------------------------------------------------------------------------
\* A Unicode letter, an ASCII digit or one of _ - + / *
symbolCharacter(r) == symbolStart(r) \/ asciiDigit(r)

\* The offset after the run of symbol characters of s that starts at p.
RECURSIVE symbolEnd(_, _)
symbolEnd(s, p) ==
    IF p < Len(s) /\ symbolCharacter(DecodeRuneInString(s, p).r)
    THEN symbolEnd(s, p + DecodeRuneInString(s, p).w)
    ELSE p

(* C24: the literal of every SYMBOL token, returned or carried by an        *)
(* InvalidAfterSymbol failure, is the non-empty maximal run of Unicode      *)
(* letters, ASCII digits and _ - + / * that begins where the call started:  *)
(* it holds nothing else and the character after it is none of these.       *)
C24_MaximalSymbolRun ==
    /\ \A k \in 1..Len(calls) :
          returned(calls[k]).Type = "SYMBOL"
              => /\ calls[k].end > calls[k].start
                 /\ calls[k].end = symbolEnd(input, calls[k].start)
                 /\ returned(calls[k]).Literal
                      = slice(input, calls[k].start, calls[k].end)
                 /\ calls[k].err.nil \/ failedWith(calls[k], InvalidAfterSymbol)
    /\ Yields(inSymbolsWithSpecialCharacters,
              <<Expected("SYMBOL", inSymbolsWithSpecialCharacters, 1, 0,
                         NoFailure),
                Expected("EOF", <<>>, 1, 9, NoFailure)>>)
    /\ Yields(inMixedSymbolsAndNumbers,
              <<Expected("SYMBOL", <<97, 49, 50, 51>>, 1, 0, NoFailure)>>)

\* A symbol of a two-byte letter, a digit and a letter.
C24_Witness ==
    \E k \in 1..Len(calls) :
        /\ calls[k].err.nil
        /\ calls[k].tok.Type = "SYMBOL"
        /\ first(calls[k]).w = 2
        /\ hasDigit(input, calls[k].start + 2)
        /\ Len(calls[k].tok.Literal) = 4

----------------------------------------------------------------------------
\* The offset of the first character of s at or after p that is no space,
\* tab, carriage return or newline, Len(s) when there is none.
RECURSIVE blankEnd(_, _)
blankEnd(s, p) ==
    IF p < Len(s) /\ byteAt(s, p) \in Whitespace THEN blankEnd(s, p + 1)
    ELSE p

\* The offsets of the newlines the call skipped.
skippedNewlines(c) ==
    {q \in c.pos0..(c.start - 1) : byteAt(lex.input, q) = ch.lf}

\* The offset of the last newline the call skipped.
lastNewline(c) ==
    CHOOSE q \in skippedNewlines(c) : \A o \in skippedNewlines(c) : o <= q

(* C25: a call first skips every leading space, tab, carriage return and    *)
(* newline and stops at the first other character or at the end of the      *)
(* input; each newline skipped adds 1 to the line, each other character     *)
(* skipped adds 1 to the column, and the character after a skipped newline  *)
(* is at column 0; the token the call reports is at the line and column     *)
(* reached, and after whitespace alone it is EOF.                           *)
C25_SkipWhitespace ==
    /\ \A k \in 1..Len(calls) :
          /\ calls[k].start = blankEnd(input, calls[k].pos0)
          /\ calls[k].startLine
               = calls[k].line0 + Cardinality(skippedNewlines(calls[k]))
          /\ calls[k].startColumn
               = (IF skippedNewlines(calls[k]) = {}
                  THEN calls[k].column0 + (calls[k].start - calls[k].pos0)
                  ELSE calls[k].start - (lastNewline(calls[k]) + 1))
          /\ returned(calls[k]).Line = calls[k].startLine
          /\ returned(calls[k]).Column = calls[k].startColumn
          /\ calls[k].start = Len(input) => isEOF(calls[k])
    /\ Yields(inWhitespace, <<Expected("EOF", <<>>, 2, 1, NoFailure)>>)
    /\ Yields(inCrlfLineEndings,
              <<Expected("SYMBOL", <<97, 98, 99>>, 1, 0, NoFailure),
                Expected("SYMBOL", <<100, 101, 102>>, 2, 0, NoFailure),
                Expected("EOF", <<>>, 2, 3, NoFailure)>>)
    /\ Yields(inTabCharacter,
              <<Expected("SYMBOL", <<97, 98, 99>>, 1, 0, NoFailure),
                Expected("SYMBOL", <<100, 101, 102>>, 1, 4, NoFailure),
                Expected("EOF", <<>>, 1, 7, NoFailure)>>)

\* A call that skipped a carriage return, a newline and a tab before a token.
C25_Witness ==
    \E k \in 1..Len(calls) :
        /\ hasByte(input, calls[k].pos0, ch.cr)
        /\ hasByte(input, calls[k].pos0 + 1, ch.lf)
        /\ hasByte(input, calls[k].pos0 + 2, ch.tab)
        /\ calls[k].start = calls[k].pos0 + 3
        /\ calls[k].start < Len(input)
        /\ returned(calls[k]).Column = 1

----------------------------------------------------------------------------
(* C26: whenever a call returns a SYMBOL with a nil error and leaves the    *)
(* cursor on a '.', the next call returns DOT with a nil error at the       *)
(* column right after the symbol, and the call after that starts on the     *)
(* character after the dot and returns or carries a SYMBOL that begins with *)
(* it.                                                                      *)
C26_MethodChaining ==
    /\ \A k \in 1..Len(calls) :
          ( /\ k + 2 <= Len(calls)
            /\ calls[k].err.nil
            /\ calls[k].tok.Type = "SYMBOL"
            /\ hasByte(input, calls[k].end, ch.dot) )
              => /\ calls[k + 1].err.nil
                 /\ calls[k + 1].tok
                      = Token("DOT", <<ch.dot>>, calls[k].startLine,
                              calls[k].startColumn
                                + countRunes(input, calls[k].start,
                                             calls[k].end))
                 /\ calls[k + 2].start = calls[k].end + 1
                 /\ scannedSymbol(calls[k + 2])
    /\ Yields(inMethodCall,
              <<Expected("SYMBOL", <<111, 98, 106>>, 1, 0, NoFailure),
                Expected("DOT", <<46>>, 1, 3, NoFailure),
                Expected("SYMBOL", <<109, 101, 116, 104, 111, 100>>, 1, 4,
                         NoFailure),
                Expected("LPAREN", <<40>>, 1, 10, NoFailure),
                Expected("SYMBOL", <<97, 114, 103>>, 1, 11, NoFailure),
                Expected("RPAREN", <<41>>, 1, 14, NoFailure),
                Expected("EOF", <<>>, 1, 15, NoFailure)>>)

----------------------------------------------------------------------------
\* The bytes of the decoded character of s at p.
character(s, p) == runeString(DecodeRuneInString(s, p).r)

\* What an InvalidAfterSymbol failure shows of the input at p, where the
\* symbol ended: the character there and, when it is '.', the one after it.
offending(s, p) ==
    IF byteAt(s, p) # ch.dot THEN character(s, p)
    ELSE <<ch.dot>> \o character(s, p + 1)

(* C27: the failure of a call that fails with InvalidAfterSymbol is         *)
(* InvalidAfterSymbol extended by WithStrhex with the character the symbol  *)
(* ended on, followed, when that character is '.', by the character after   *)
(* the dot.                                                                 *)
C27_InvalidAfterSymbolSuffix ==
    /\ \A k \in 1..Len(calls) :
          ( /\ failedWith(calls[k], InvalidAfterSymbol)
            /\ hasByte(input, calls[k].end, ch.dot)
                  => calls[k].end + 1 < Len(input) )
              => calls[k].err.Reason
                   = WithStrhex(InvalidAfterSymbol,
                                offending(input, calls[k].end))
    /\ (input = inMixedSymbolsAndNumbers /\ Len(calls) >= 2)
          => calls[2].err.Reason = WithStrhex(InvalidAfterSymbol, <<46, 54>>)
    /\ (input = inSymbolFollowedByDotOne /\ Len(calls) >= 1)
          => calls[1].err.Reason = WithStrhex(InvalidAfterSymbol, <<46, 49>>)
    /\ (input = inSymbolFollowedByPipe /\ Len(calls) >= 1)
          => calls[1].err.Reason = WithStrhex(InvalidAfterSymbol, <<124>>)

----------------------------------------------------------------------------
(* C28: a call returns the EOF token exactly when, after whitespace         *)
(* skipping, the cursor is at the end of the input; a call that returns EOF *)
(* leaves the cursor where whitespace skipping put it.                      *)
C28_EofOnlyAtEnd ==
    \A k \in 1..Len(calls) :
        /\ returned(calls[k]).Type = "EOF" <=> calls[k].start = Len(input)
        /\ returned(calls[k]).Type = "EOF"
              => /\ calls[k].err.nil
                 /\ calls[k].end = calls[k].start

----------------------------------------------------------------------------
(* C29: the kind of a symbol does not depend on its text. A call that       *)
(* starts on a Unicode letter or on one of - + / *, where a symbol is       *)
(* scanned, returns kind SYMBOL whatever the run spells; def, let, fun,     *)
(* struct and lambda are SYMBOL tokens; and the kind of every returned      *)
(* token is one of the enumeration, never PREDEFINED nor SEMICOLON.         *)
C29_SymbolKind ==
    /\ \A k \in 1..Len(calls) :
          /\ returned(calls[k]).Type \in TokenTypes
          /\ returned(calls[k]).Type \notin {"PREDEFINED", "SEMICOLON"}
          /\ ( /\ calls[k].start < Len(input)
               /\ symbolStart(first(calls[k]).r)
               /\ first(calls[k]).r # ch.under )
                 => returned(calls[k]).Type = "SYMBOL"
    /\ Yields(inBasicSymbols,
              <<Expected("SYMBOL", <<100, 101, 102>>, 1, 0, NoFailure),
                Expected("SYMBOL", <<108, 101, 116>>, 1, 4, NoFailure),
                Expected("SYMBOL", <<102, 117, 110>>, 1, 8, NoFailure),
                Expected("SYMBOL", <<115, 116, 114, 117, 99, 116>>, 1, 12,
                         NoFailure),
                Expected("SYMBOL", <<108, 97, 109, 98, 100, 97>>, 1, 19,
                         NoFailure),
                Expected("EOF", <<>>, 1, 25, NoFailure)>>)

\* The five former reserved words have been returned, then EOF.
C29_Witness ==
    /\ input = inBasicSymbols
    /\ Len(calls) >= 6
    /\ \A k \in 1..5 : calls[k].tok.Type = "SYMBOL" /\ calls[k].err.nil
    /\ calls[1].tok.Literal = <<100, 101, 102>>
    /\ calls[5].tok.Literal = <<108, 97, 109, 98, 100, 97>>
    /\ calls[6].tok.Type = "EOF"

----------------------------------------------------------------------------
(* C30: the driver *)

\* What the lexer l hands back, call after call, before its first EOF token,
\* in at most n calls.
RECURSIVE produced(_, _), producedAfter(_, _)
produced(l, n) == IF n = 0 THEN <<>> ELSE producedAfter(NextToken(l), n)

producedAfter(r, n) ==
    IF r.err.nil /\ r.tok.Type = "EOF"
    THEN <<>>
    ELSE <<r>> \o produced(r.lex, n - 1)

\* The results that halt the driver short of EOF: an error, an ILLEGAL token.
halts(r) == ~r.err.nil \/ r.tok.Type = "ILLEGAL"

\* log cut at its result k: an error is kept, an ILLEGAL token is not.
cut(log, k) == SubSeq(log, 1, IF log[k].err.nil THEN k - 1 ELSE k)

\* The results of log up to the first that halts the driver.
untilHalt(log) ==
    IF \A k \in 1..Len(log) : ~halts(log[k])
    THEN log
    ELSE cut(log, CHOOSE k \in 1..Len(log) :
                      /\ halts(log[k])
                      /\ \A q \in 1..(k - 1) : ~halts(log[q]))

\* How main prints the results of log: tokens by Printf, errors by Println.
shown(log) ==
    [k \in 1..Len(log) |->
        IF log[k].err.nil THEN Printf(log[k].tok) ELSE Println(log[k].err)]

lexing == main.pc = "lexing"
lineDone == main.pc = "prompt" /\ main.lines > 0

\* The driver stands on a fresh lexer when it enters the inner loop.
freshLexer == (lexing /\ calls = <<>>) => lex = NewLexer(input)

\* What a turn of the inner loop reads from main.returns is what NextToken
\* hands back on the lexer as it stands.
nextReturn ==
    lexing => /\ Len(calls) < Len(main.returns)
              /\ main.returns[Len(calls) + 1] = NextToken(lex)

(* C30 as stated: the inner loop always terminates, and when it has ended   *)
(* every token and every error the lexer produces on the line before its    *)
(* first EOF token has been printed.                                        *)
C30_PrintsAllUpToEof ==
    /\ lexing ~> lineDone
    /\ [](freshLexer
           /\ nextReturn
           /\ (lineDone
                 => main.printed
                      = shown(produced(NewLexer(input), Len(input) + 1))))

(* C30 amended: the inner loop always terminates; it starts on a fresh      *)
(* lexer; while it runs, every result so far was a token other than EOF and *)
(* ILLEGAL and has been printed; when it has ended, what has been printed   *)
(* is what the lexer produces on the line before its first EOF token, cut   *)
(* after the first error or before the first ILLEGAL token; on the line     *)
(* !@# nothing is printed.                                                  *)
C30_PrintsUntilHalt ==
    /\ lexing ~> lineDone
    /\ [](/\ freshLexer
           /\ nextReturn
           /\ ( lexing
                 => /\ \A k \in 1..Len(calls) :
                          /\ calls[k].err.nil
                          /\ calls[k].tok.Type \notin {"EOF", "ILLEGAL"}
                    /\ main.printed = shown(calls) )
           /\ ( lineDone
                 => /\ calls # <<>>
                    /\ main.printed
                         = shown(untilHalt(produced(NewLexer(input),
                                                    Len(input) + 1)))
                    /\ tok.Type \in {"EOF", "ILLEGAL"} \/ ~err.nil )
           /\ ( lineDone /\ input = inIllegalCharacters
                 => main.printed = <<>> /\ Len(calls) = 1 ))

\* The second line was "1a": the error on 1 was printed and the loop ended
\* with the symbol a unread.
C30_Witness ==
    /\ lineDone
    /\ main.lines = 2
    /\ input = <<ch.one, ch.a>>
    /\ Len(calls) = 1
    /\ failedWith(calls[1], NonDigitInNumber)
    /\ main.printed = <<Println(err)>>
    /\ lex.currentPosition = 1

----------------------------------------------------------------------------
\* The kinds of token a failure of the given cause carries; none for a text
\* that is not one of the five causes.
carried(cause) ==
    CASE cause = TwoDotsInFloat -> {"FLOAT"}
      [] cause = NonDigitInNumber -> {"INT", "FLOAT"}
      [] cause = EofInString -> {"STRING"}
      [] cause = NewlineInString -> {"STRING"}
      [] cause = InvalidAfterSymbol -> {"SYMBOL"}
      [] OTHER -> {}

\* The kinds whose scanning cannot fail: comments, the single-character
\* tokens, ILLEGAL and EOF.
Unfailing ==
    {"COMMENT", "ILLEGAL", "EOF", "DOT"} \cup {m[2] : m \in Monotokens}

(* C31: the cause of a failure is one of the five and determines the kind   *)
(* of the token the error carries: FLOAT for TwoDotsInFloat, INT or FLOAT   *)
(* for NonDigitInNumber, STRING for EofInString and NewlineInString, SYMBOL *)
(* for InvalidAfterSymbol. A call that starts on a semicolon, or whose      *)
(* token is a comment, a single-character token, ILLEGAL or EOF, returns no *)
(* error; a failed call hands back the zero token.                          *)
C31_CauseDeterminesKind ==
    \A k \in 1..Len(calls) :
        /\ ~calls[k].err.nil
              => /\ calls[k].err.Token.Type
                      \in carried(Cause(calls[k].err.Reason))
                 /\ calls[k].tok = ZeroToken
        /\ ( \/ onByte(calls[k], ch.semi)
             \/ returned(calls[k]).Type \in Unfailing )
              => calls[k].err.nil

\* 1.1. failed on its second dot with a FLOAT token.
C31_Witness ==
    /\ input = <<ch.one, ch.dot, ch.one, ch.dot>>
    /\ Len(calls) >= 1
    /\ failedWith(calls[1], TwoDotsInFloat)
    /\ calls[1].err.Token.Type = "FLOAT"
    /\ calls[1].err.Token.Literal = <<ch.one, ch.dot, ch.one>>

----------------------------------------------------------------------------
\* Whether offset p of s is reached from offset q by decoding character
\* after character.
RECURSIVE reaches(_, _, _)
reaches(s, q, p) ==
    IF q >= p \/ q >= Len(s) THEN q = p
    ELSE reaches(s, q + DecodeRuneInString(s, q).w, p)

\* Offset p of s lies between two decoded characters of s.
onBoundary(s, p) == reaches(s, 0, p)

(* C32: after NewLexer and after every NextToken call the cursor is within  *)
(* the input, 0 <= currentPosition <= len(input), on a boundary between     *)
(* decoded characters; when it equals len(input) the current character is   *)
(* the zero sentinel; and it never decreases: every call ends at or after   *)
(* the offset it began at, which is where the call before it ended, the     *)
(* first one beginning at 0.                                                *)
C32_CursorInvariant ==
    /\ lex.currentPosition >= 0
    /\ lex.currentPosition <= Len(input)
    /\ onBoundary(input, lex.currentPosition)
    /\ lex.currentPosition = Len(input) => lex.current = 0
    /\ \A k \in 1..Len(calls) :
          /\ calls[k].pos0 <= calls[k].end
          /\ calls[k].pos0 = IF k = 1 THEN 0 ELSE calls[k - 1].end
    /\ calls # <<>> => lex.currentPosition = calls[Len(calls)].end

\* The two-byte letter U+00E9 then a: one call moved the cursor from 0 over
\* both characters to the end of the input, where the sentinel is current.
C32_Witness ==
    /\ input = <<195, 169, ch.a>>
    /\ Len(calls) = 1
    /\ calls[1].pos0 = 0
    /\ calls[1].end = 3
    /\ lex.currentPosition = 3
    /\ lex.current = 0
    /\ onBoundary(input, 2) /\ ~onBoundary(input, 1)

----------------------------------------------------------------------------
\* The cursor stands at the end of the input.
exhausted == lex.currentPosition = Len(input)

(* C33: once currentPosition equals len(input), forward and every NextToken *)
(* call leave currentPosition, current, currentWidth, line and column as    *)
(* they were; and no NextToken call changes the input.                      *)
C33_FrameAtExhaustion ==
    /\ [](exhausted => forward(lex) = lex)
    /\ [][ /\ exhausted => lex' = lex
           /\ lex'.input = lex.input ]_vars

\* On a and a line feed the third call was made at the end of the input, on
\* line 2, and left the lexer there.
C33_Witness ==
    /\ input = <<ch.a, ch.lf>>
    /\ Len(calls) = 3
    /\ calls[3].pos0 = 2
    /\ calls[3].line0 = 2
    /\ calls[3].column0 = 0
    /\ calls[3].tok.Type = "EOF"
    /\ lex = [NewLexer(input) EXCEPT !.currentPosition = 2, !.current = 0,
                                     !.line = 2, !.column = 0]

====
